---- MODULE Spec2Model ----
(***************************************************************************)
(* A small-step model of src/main.rs: the fourteen demonstration functions *)
(* called in sequence by main, with the ownership, borrowing and slicing   *)
(* rules of the language made explicit as run-time state.                  *)
(*                                                                         *)
(* A program counter is the source line of the next statement.  A text is  *)
(* a sequence of one-character strings (all texts of the program are       *)
(* ASCII, so byte indices and character indices coincide).                 *)
(***************************************************************************)
EXTENDS Integers, Sequences, FiniteSets, TLC

VARIABLES
    status,     \* "NotStarted", "Running", "Completed" or "Aborted" (a panic)
    stack,      \* call stack: frames [fn, pc, vars, dest, destLast, retpc]
    heap,       \* live heap buffers of String values: id -> [content, scen]
    nextId,     \* the allocator's next fresh buffer identity
    dropped,    \* id -> how many times the buffer has been released
    borrows,    \* live borrows: [id, mut, depth, name, last]
    out,        \* the lines written to standard output by the current run
    started,    \* history: the scenarios main has called, in order
    returned,   \* history: the scenarios that have returned to main, in order
    ranges,     \* history: every range taken of a text or an array
    faults,     \* history: accesses the ownership rules forbid
    fwCalls,    \* history: argument and result of every completed call of first_word
    runNo,      \* which run of the program this is (1 = the first)
    mode,       \* "all" (main) or the one scenario a repeated run calls
    marks,      \* history: Len(out) at each scenario start of the current run
    firstOut,   \* the output of run 1, kept when a further run starts
    firstMarks  \* the marks of run 1, kept when a further run starts

vars == <<status, stack, heap, nextId, dropped, borrows, out, started,
          returned, ranges, faults, fwCalls, runNo, mode, marks, firstOut,
          firstMarks>>

runVars == <<runNo, mode, firstOut, firstMarks>>

(***************************************************************************)
(* Bounds of the model.                                                    *)
(***************************************************************************)
MaxLen == 3      \* longest text handed to first_word by the generalised caller
MaxRuns == 2     \* how many times the program is run when runs are compared

(***************************************************************************)
(* Literals of the program.                                                *)
(***************************************************************************)
Hello == <<"h", "e", "l", "l", "o">>
HelloWorld == <<"h", "e", "l", "l", "o", " ", "w", "o", "r", "l", "d">>
CommaWorld == <<",", " ", "w", "o", "r", "l", "d">>
CommaWorldTilde == <<",", " ", "w", "o", "r", "l", "d", "~">>
Space == " "

\* The order of the calls in main, with the line of each call.
Order == <<"mutable_string", "multiple_variables_simple",
           "multiple_variables_complex", "using_clone",
           "passing_function_params", "function_with_return",
           "using_reference", "using_mutable_reference",
           "rules_of_mutable_references", "about_dangle", "using_slice",
           "using_slice_function", "general_string_slice", "other_slices">>

\* The line of the first statement of each function.
Entry == [mutable_string |-> 7, multiple_variables_simple |-> 16,
          multiple_variables_complex |-> 25, using_clone |-> 43,
          print_string |-> 55, print_integer |-> 59,
          passing_function_params |-> 63, takes_and_gives_back |-> 84,
          function_with_return |-> 88, calculate_length |-> 99,
          using_reference |-> 103, change |-> 117,
          using_mutable_reference |-> 121,
          rules_of_mutable_references |-> 131, no_dangle |-> 174,
          about_dangle |-> 179, using_slice |-> 186, first_word |-> 204,
          using_slice_function |-> 219, general_string_slice |-> 232,
          other_slices |-> 250, main |-> 262]

(***************************************************************************)
(* Values held by bindings.                                                *)
(***************************************************************************)
IntV(n) == [kind |-> "int", v |-> n]
ByteV(c) == [kind |-> "u8", v |-> c]
StrV(id) == [kind |-> "String", id |-> id]
Moved == [kind |-> "moved"]
RefStringV(id, mut) == [kind |-> "refString", id |-> id, mut |-> mut]
StrRef(id, lo, hi) == [kind |-> "str", id |-> id, lo |-> lo, hi |-> hi]
ArrV(e) == [kind |-> "array", elems |-> e]
ARefV(of, lo, hi) == [kind |-> "aref", of |-> of, lo |-> lo, hi |-> hi]
NoVars == [n \in {} |-> Moved]

Bind(vs, n, v) == (n :> v) @@ vs

\* The string literal "hello world" lives in static memory, buffer 0.
StaticId == 0

Content(hp, id) ==
    IF id = StaticId THEN HelloWorld
    ELSE IF id \in DOMAIN hp THEN hp[id].content
    ELSE <<>>

Top == stack[Len(stack)]

At(f, l) == status = "Running" /\ stack # <<>> /\ Top.fn = f /\ Top.pc = l

\* The scenario (the function main called) the current statement belongs to.
Scenario == IF Len(stack) >= 2 THEN stack[2].fn ELSE Top.fn

\* The machine state a statement works on.
Cur == [vars |-> Top.vars, heap |-> heap, nextId |-> nextId,
        dropped |-> dropped, borrows |-> borrows, out |-> out,
        ranges |-> ranges, faults |-> faults, panic |-> FALSE,
        depth |-> Len(stack), scen |-> Scenario, fn |-> Top.fn, pc |-> Top.pc,
        arg |-> Moved]


(***************************************************************************)
(* Reading and formatting.                                                 *)
(***************************************************************************)
Digit == <<"0", "1", "2", "3", "4", "5", "6", "7", "8", "9">>

RECURSIVE Digits(_)
Digits(n) ==
    IF n < 10 THEN <<Digit[n + 1]>>
    ELSE Append(Digits(n \div 10), Digit[(n % 10) + 1])

\* Display of an integer: its decimal digits.
FmtInt(n) == IF n < 0 THEN <<"-">> \o Digits(-n) ELSE Digits(n)

HoldsBuffer(v) == v.kind \in {"String", "refString", "str"}

\* The text a &str or a String (or a reference to one) denotes.
Deref(hp, v) ==
    IF v.kind = "str" THEN SubSeq(Content(hp, v.id), v.lo + 1, v.hi)
    ELSE Content(hp, v.id)

\* What is wrong, if anything, with reading binding n in state m.
ReadFaults(m, n) ==
    LET v == m.vars[n] IN
    (IF v.kind = "moved" THEN {"use_after_move"} ELSE {})
    \cup (IF HoldsBuffer(v) /\ v.id # StaticId /\ v.id \notin DOMAIN m.heap
          THEN {"dangling"} ELSE {})
    \cup (IF HoldsBuffer(v) /\ v.id \in DOMAIN m.heap
             /\ m.heap[v.id].scen # m.scen
          THEN {"cross_scenario_read"} ELSE {})
    \cup (IF v.kind \in {"refString", "str"}
             /\ ~\E b \in m.borrows : b.depth = m.depth /\ b.name = n
          THEN {"dead_borrow"} ELSE {})

\* A variant of Show that prints where a text is stored, not what it holds.
ShowAddress(m, n) ==
    LET v == m.vars[n] IN
    IF v.kind = "int" THEN FmtInt(v.v)
    ELSE IF HoldsBuffer(v) THEN FmtInt(v.id)
    ELSE <<>>

\* The characters {n} puts on the output line.
Show(m, n) ==
    LET v == m.vars[n] IN
    IF v.kind = "int" THEN FmtInt(v.v)
    ELSE IF HoldsBuffer(v) THEN Deref(m.heap, v)
    ELSE <<>>

L(s) == [lit |-> s]
V(n) == [var |-> n]

\* println!: one output line, made of the template's literal pieces and the
\* formatted values of the bindings it names.
Println(m, frags) ==
    LET used == {frags[i].var : i \in {j \in 1..Len(frags) : "var" \in DOMAIN frags[j]}} IN
    [m EXCEPT
        !.out = Append(@, [i \in 1..Len(frags) |->
                    IF "var" \in DOMAIN frags[i] THEN Show(m, frags[i].var)
                    ELSE frags[i].lit]),
        !.faults = @ \cup UNION {ReadFaults(m, n) : n \in used}]

(***************************************************************************)
(* Owned values: creation, growth, copy, move, clone, release.             *)
(***************************************************************************)
\* A fresh heap buffer holding text, made in state m.
Alloc(m, text) ==
    [m EXCEPT !.heap = (m.nextId :> [content |-> text, scen |-> m.scen]) @@ @,
              !.dropped = (m.nextId :> 0) @@ @,
              !.nextId = @ + 1]

\* let n = String::from(text)
StringFrom(m, n, text) ==
    [Alloc(m, text) EXCEPT !.vars = Bind(@, n, StrV(m.nextId))]

\* n.push_str(text), n a String or a &mut String
PushStr(m, n, text) ==
    LET v == m.vars[n] IN
    [m EXCEPT
        !.heap = IF HoldsBuffer(v) /\ v.id \in DOMAIN @
                 THEN [@ EXCEPT ![v.id].content = @ \o text] ELSE @,
        !.faults = @ \cup ReadFaults(m, n)
            \cup (IF v.kind = "refString" /\ ~v.mut
                  THEN {"write_through_shared"} ELSE {})
            \cup (IF v.kind = "String" /\ \E b \in m.borrows : b.id = v.id
                  THEN {"write_while_borrowed"} ELSE {})]

\* let n = k
LetInt(m, n, k) == [m EXCEPT !.vars = Bind(@, n, IntV(k))]

\* A move that forgets to invalidate its source.
MoveKeepsSource(m, src, dst) ==
    [m EXCEPT !.vars = Bind(@, dst, m.vars[src])]

\* let dst = src, for a type that is not Copy: the source becomes invalid.
Move(m, src, dst) ==
    [m EXCEPT !.vars = Bind(Bind(@, src, Moved), dst, m.vars[src]),
              !.faults = @ \cup ReadFaults(m, src)]

\* A copy that invalidates its source, as a move does.
CopyAsMove(m, src, dst) ==
    [m EXCEPT !.vars = Bind(Bind(@, src, Moved), dst, m.vars[src])]

\* let dst = src, for a Copy type: both bindings hold the value.
CopyBind(m, src, dst) ==
    [m EXCEPT !.vars = Bind(@, dst, m.vars[src]),
              !.faults = @ \cup ReadFaults(m, src)]

\* A clone that copies the pointer instead of the heap data.
CloneShallow(m, src, dst) ==
    [m EXCEPT !.vars = Bind(@, dst, m.vars[src])]

\* let dst = src.clone(): a new buffer with the same content.
Clone(m, src, dst) ==
    [Alloc(m, Deref(m.heap, m.vars[src])) EXCEPT
        !.vars = Bind(@, dst, StrV(m.nextId)),
        !.faults = @ \cup ReadFaults(m, src)]

\* A scope that releases nothing when it ends.
OwnedForgotten(vs, keep) == {}

\* The buffers a scope releases when it ends: those its valid String
\* bindings own, the returned binding excepted.
Owned(vs, keep) ==
    {vs[n].id : n \in {k \in DOMAIN vs \ {keep} : vs[k].kind = "String"}}

\* How many bindings of vs own buffer id.
OwnersIn(vs, id) ==
    Cardinality({n \in DOMAIN vs : vs[n].kind = "String" /\ vs[n].id = id})

(***************************************************************************)
(* Borrows and ranges.                                                     *)
(***************************************************************************)
\* A borrow of buffer id held by binding name of the frame at depth; it is
\* live until the statement at line last of that frame has run (its last
\* use in the source), or until the frame returns.
Borrow(id, mut, depth, name, last) ==
    [id |-> id, mut |-> mut, depth |-> depth, name |-> name, last |-> last]

\* A borrow that lasts to the end of its scope, whatever its last use.
BorrowRefWholeScope(m, n, target, mut, last) ==
    LET v == m.vars[target] IN
    [m EXCEPT !.vars = Bind(@, n, RefStringV(v.id, mut)),
              !.borrows = @ \cup {Borrow(v.id, mut, m.depth, n, 0)}]

\* let n = &target  or  let n = &mut target
BorrowRef(m, n, target, mut, last) ==
    LET v == m.vars[target] IN
    [m EXCEPT !.vars = Bind(@, n, RefStringV(v.id, mut)),
              !.borrows = @ \cup {Borrow(v.id, mut, m.depth, n, last)},
              !.faults = @ \cup ReadFaults(m, target)]

\* s.len() counted one too far.
StrLenPlusOne(c) == Len(c) + 1

\* s.len()
StrLen(c) == Len(c)

\* let n = src.len()
LetLen(m, n, src) ==
    [m EXCEPT !.vars = Bind(@, n, IntV(StrLen(Deref(m.heap, m.vars[src])))),
              !.faults = @ \cup ReadFaults(m, src)]

\* The index check of a range a..b on a sequence of length len.
InRange(a, b, len) == 0 <= a /\ a <= b /\ b <= len

\* The region of binding src as [id, lo, hi].
Region(m, src) ==
    LET v == m.vars[src] IN
    IF v.kind = "str" THEN v
    ELSE StrRef(v.id, 0, Len(Content(m.heap, v.id)))

RangeRecord(m, a, b, len) ==
    [fn |-> m.fn, line |-> m.pc, start |-> a, end |-> b, len |-> len]

\* The value &src[a..b]; a failed index check is a panic.
Slice(m, src, a, b) ==
    LET r == Region(m, src)
        len == r.hi - r.lo
        m1 == [m EXCEPT !.ranges = @ \cup {RangeRecord(m, a, b, len)},
                        !.faults = @ \cup ReadFaults(m, src)]
    IN  IF InRange(a, b, len)
        THEN [m1 EXCEPT !.arg = StrRef(r.id, r.lo + a, r.lo + b)]
        ELSE [m1 EXCEPT !.panic = TRUE]

\* let n = &src[a..b]
LetSlice(m, n, src, a, b, last) ==
    LET m1 == Slice(m, src, a, b) IN
    IF m1.panic THEN m1
    ELSE [m1 EXCEPT !.vars = Bind(@, n, m1.arg),
                    !.borrows = @ \cup {Borrow(m1.arg.id, FALSE, m.depth, n, last)}]

(***************************************************************************)
(* Arguments of a call: the value ends up in m.arg.                        *)
(***************************************************************************)
\* f(src), src not Copy: ownership moves into the parameter.
ArgMove(m, src) ==
    [m EXCEPT !.arg = m.vars[src], !.vars = Bind(@, src, Moved),
              !.faults = @ \cup ReadFaults(m, src)]

\* f(src), src Copy (an integer, or a &str; param names the parameter).
ArgCopy(m, src, param) ==
    LET v == m.vars[src] IN
    [m EXCEPT !.arg = v,
              !.borrows = IF v.kind = "str"
                          THEN @ \cup {Borrow(v.id, FALSE, m.depth + 1, param, 0)}
                          ELSE @,
              !.faults = @ \cup ReadFaults(m, src)]

\* f(&src) or f(&mut src), the parameter a &String or &mut String.
ArgRef(m, src, param, mut) ==
    LET v == m.vars[src] IN
    [m EXCEPT !.arg = RefStringV(v.id, mut),
              !.borrows = @ \cup {Borrow(v.id, mut, m.depth + 1, param, 0)},
              !.faults = @ \cup ReadFaults(m, src)]

\* f(&src), the parameter a &str: the whole region of the String.
ArgStr(m, src, param) ==
    LET r == Region(m, src) IN
    [m EXCEPT !.arg = r,
              !.borrows = @ \cup {Borrow(r.id, FALSE, m.depth + 1, param, 0)},
              !.faults = @ \cup ReadFaults(m, src)]

\* f(&src[a..b]), the parameter a &str.
ArgSlice(m, src, a, b, param) ==
    LET m1 == Slice(m, src, a, b) IN
    IF m1.panic THEN m1
    ELSE [m1 EXCEPT !.borrows = @ \cup {Borrow(m1.arg.id, FALSE, m.depth + 1, param, 0)}]

(***************************************************************************)
(* Steps: a statement, a call, a return.                                   *)
(***************************************************************************)
\* Borrows whose last use was the statement at line l of the frame at depth d.
Expire(B, d, l) == {b \in B : ~(b.depth = d /\ b.last = l)}

Commit(m) ==
    /\ heap' = m.heap
    /\ nextId' = m.nextId
    /\ dropped' = m.dropped
    /\ out' = m.out
    /\ ranges' = m.ranges
    /\ faults' = m.faults

\* The statement at line l of f takes the machine to state m and goes on at
\* line l2; a panic ends the run.
Do(f, l, l2, m) ==
    /\ At(f, l)
    /\ Commit(m)
    /\ IF m.panic
       THEN /\ status' = "Aborted"
            /\ UNCHANGED <<stack, borrows>>
       ELSE /\ status' = status
            /\ stack' = [stack EXCEPT ![Len(stack)] =
                            [@ EXCEPT !.pc = l2, !.vars = m.vars]]
            /\ borrows' = Expire(m.borrows, Len(stack), l)
    /\ UNCHANGED <<started, returned, fwCalls, marks, runVars>>

Frame(callee, vs, dest, destLast, retpc) ==
    [fn |-> callee, pc |-> Entry[callee], vars |-> vs, dest |-> dest,
     destLast |-> destLast, retpc |-> retpc]

\* The statement at line l of f calls callee with m.arg as its parameter
\* param ("" when it takes none); the result, if any, goes to binding dest
\* of the caller, which goes on at retpc.
Call(f, l, retpc, m, callee, param, dest, destLast) ==
    /\ At(f, l)
    /\ Commit(m)
    /\ IF m.panic
       THEN /\ status' = "Aborted"
            /\ UNCHANGED <<stack, borrows, started, marks>>
       ELSE /\ status' = status
            /\ stack' = Append(
                 [stack EXCEPT ![Len(stack)].vars = m.vars],
                 Frame(callee, IF param = "" THEN NoVars ELSE (param :> m.arg),
                       dest, destLast, retpc))
            /\ borrows' = m.borrows
            /\ started' = IF Len(stack) = 1 THEN Append(started, callee) ELSE started
            /\ marks' = IF Len(stack) = 1 THEN Append(marks, Len(out)) ELSE marks
    /\ UNCHANGED <<returned, fwCalls, runVars>>

\* The buffers of ids leave the heap.
Release(hp, ids) == [i \in DOMAIN hp \ ids |-> hp[i]]

\* f returns at line l, its result the value of binding res ("" for none):
\* the frame's valid owning bindings are released, its borrows end, and the
\* caller receives the result.
Return(f, l, res) ==
    /\ At(f, l)
    /\ LET d == Len(stack)
           fr == Top
           gone == Owned(fr.vars, res)
           val == IF res = "" THEN Moved ELSE fr.vars[res]
           kept == {b \in borrows : b.depth < d}
       IN
       /\ heap' = Release(heap, gone)
       /\ dropped' = [i \in DOMAIN dropped |->
                        IF i \in gone THEN dropped[i] + 1 ELSE dropped[i]]
       /\ IF d = 1
          THEN /\ stack' = <<>>
               /\ status' = "Completed"
               /\ borrows' = kept
          ELSE /\ stack' = Append(SubSeq(stack, 1, d - 2),
                    [stack[d - 1] EXCEPT
                       !.pc = fr.retpc,
                       !.vars = IF fr.dest = "" THEN @ ELSE Bind(@, fr.dest, val)])
               /\ status' = status
               /\ borrows' = Expire(kept, d - 1, stack[d - 1].pc)
                    \cup (IF val.kind \in {"str", "refString"}
                          THEN {Borrow(val.id, FALSE, d - 1, fr.dest, fr.destLast)}
                          ELSE {})
       /\ returned' = IF d = 2 THEN Append(returned, fr.fn) ELSE returned
       /\ fwCalls' = IF fr.fn = "first_word"
                     THEN fwCalls \cup {[arg |-> Deref(heap, fr.vars["s"]),
                                         res |-> Deref(heap, val),
                                         argRef |-> fr.vars["s"],
                                         resRef |-> val]}
                     ELSE fwCalls
    /\ UNCHANGED <<nextId, out, ranges, faults, started, marks, runVars>>

(***************************************************************************)
(* The functions of src/main.rs, one action each, one disjunct a statement.*)
(***************************************************************************)
mutable_string ==
    \/ Do("mutable_string", 7, 10, Println(Cur, <<L("Mutable string...")>>))
    \/ Do("mutable_string", 10, 11, StringFrom(Cur, "s", Hello))
    \/ Do("mutable_string", 11, 12, PushStr(Cur, "s", CommaWorldTilde))
    \/ Do("mutable_string", 12, 13, Println(Cur, <<V("s")>>))
    \/ Return("mutable_string", 13, "")

multiple_variables_simple ==
    \/ Do("multiple_variables_simple", 16, 18,
          Println(Cur, <<L("Multiple variables simple...")>>))
    \/ Do("multiple_variables_simple", 18, 19, LetInt(Cur, "x", 5))
    \/ Do("multiple_variables_simple", 19, 21, CopyBind(Cur, "x", "y"))
    \/ Do("multiple_variables_simple", 21, 22,
          Println(Cur, <<L("x = "), V("x"), L(", y = "), V("y")>>))
    \/ Return("multiple_variables_simple", 22, "")

multiple_variables_complex ==
    \/ Do("multiple_variables_complex", 25, 31,
          Println(Cur, <<L("Multiple variables complex...")>>))
    \/ Do("multiple_variables_complex", 31, 36, StringFrom(Cur, "s1", Hello))
    \/ Do("multiple_variables_complex", 36, 39, Move(Cur, "s1", "s2"))
    \/ Do("multiple_variables_complex", 39, 40,
          Println(Cur, <<V("s2"), L(", world")>>))
    \/ Return("multiple_variables_complex", 40, "")

using_clone ==
    \/ Do("using_clone", 43, 44, Println(Cur, <<L("Clone complex data...")>>))
    \/ Do("using_clone", 44, 48, StringFrom(Cur, "s1", Hello))
    \/ Do("using_clone", 48, 51, Clone(Cur, "s1", "s2"))
    \/ Do("using_clone", 51, 52,
          Println(Cur, <<L("s1 = "), V("s1"), L(", s2 = "), V("s2")>>))
    \/ Return("using_clone", 52, "")

print_string ==
    \/ Do("print_string", 55, 56,
          Println(Cur, <<L("This is a string:  "), V("value")>>))
    \/ Return("print_string", 56, "")

print_integer ==
    \/ Do("print_integer", 59, 60,
          Println(Cur, <<L("This is an integer: "), V("value")>>))
    \/ Return("print_integer", 60, "")

passing_function_params ==
    \/ Do("passing_function_params", 63, 65,
          Println(Cur, <<L("Passing function params...")>>))
    \/ Do("passing_function_params", 65, 69, StringFrom(Cur, "s", Hello))
    \/ Call("passing_function_params", 69, 73, ArgMove(Cur, "s"),
            "print_string", "value", "", 0)
    \/ Do("passing_function_params", 73, 74, LetInt(Cur, "x", 5))
    \/ Call("passing_function_params", 74, 80, ArgCopy(Cur, "x", "value"),
            "print_integer", "value", "", 0)
    \/ Do("passing_function_params", 80, 81,
          Println(Cur, <<L("Check validity of x: "), V("x")>>))
    \/ Return("passing_function_params", 81, "")

takes_and_gives_back ==
    Return("takes_and_gives_back", 84, "value")

function_with_return ==
    \/ Do("function_with_return", 88, 90,
          Println(Cur, <<L("Function with return...")>>))
    \/ Do("function_with_return", 90, 91, StringFrom(Cur, "s", Hello))
    \/ Call("function_with_return", 91, 95, ArgMove(Cur, "s"),
            "takes_and_gives_back", "value", "s2", 0)
    \/ Do("function_with_return", 95, 96,
          Println(Cur, <<L("Getting back s and store in s2: "), V("s2")>>))
    \/ Return("function_with_return", 96, "")

calculate_length ==
    \/ Do("calculate_length", 99, 100, LetLen(Cur, "ret", "s"))
    \/ Return("calculate_length", 100, "ret")

using_reference ==
    \/ Do("using_reference", 103, 106, Println(Cur, <<L("Using reference...")>>))
    \/ Do("using_reference", 106, 107, StringFrom(Cur, "s1", Hello))
    \/ Call("using_reference", 107, 111, ArgRef(Cur, "s1", "s", FALSE),
            "calculate_length", "s", "len", 0)
    \/ Do("using_reference", 111, 114,
          Println(Cur, <<L("The length of '"), V("s1"), L("' is "), V("len"), L(".")>>))
    \/ Return("using_reference", 114, "")

change ==
    \/ Do("change", 117, 118, PushStr(Cur, "s", CommaWorld))
    \/ Return("change", 118, "")

using_mutable_reference ==
    \/ Do("using_mutable_reference", 121, 123,
          Println(Cur, <<L("Using mutable referance...")>>))
    \/ Do("using_mutable_reference", 123, 125, StringFrom(Cur, "s", Hello))
    \/ Call("using_mutable_reference", 125, 127, ArgRef(Cur, "s", "s", TRUE),
            "change", "s", "", 0)
    \/ Do("using_mutable_reference", 127, 128,
          Println(Cur, <<L("The final result is: "), V("s")>>))
    \/ Return("using_mutable_reference", 128, "")

\* The last use of the first r1 is line 148, of the first r2 line 150, of
\* the second r1 and r2 line 156.
rules_of_mutable_references ==
    \/ Do("rules_of_mutable_references", 131, 137,
          Println(Cur, <<L("Rules of mutable references...")>>))
    \/ Do("rules_of_mutable_references", 137, 147, StringFrom(Cur, "s", Hello))
    \/ Do("rules_of_mutable_references", 147, 148, BorrowRef(Cur, "r1", "s", TRUE, 148))
    \/ Do("rules_of_mutable_references", 148, 149, Println(Cur, <<L("r1: "), V("r1")>>))
    \/ Do("rules_of_mutable_references", 149, 150, BorrowRef(Cur, "r2", "s", TRUE, 150))
    \/ Do("rules_of_mutable_references", 150, 154, Println(Cur, <<L("r2: "), V("r2")>>))
    \/ Do("rules_of_mutable_references", 154, 155, BorrowRef(Cur, "r1", "s", FALSE, 156))
    \/ Do("rules_of_mutable_references", 155, 156, BorrowRef(Cur, "r2", "s", FALSE, 156))
    \/ Do("rules_of_mutable_references", 156, 162,
          Println(Cur, <<L("r1: "), V("r1"), L(", r2: "), V("r2")>>))
    \/ Return("rules_of_mutable_references", 162, "")

no_dangle ==
    \/ Do("no_dangle", 174, 175, StringFrom(Cur, "s", Hello))
    \/ Return("no_dangle", 175, "s")

about_dangle ==
    \/ Do("about_dangle", 179, 181, Println(Cur, <<L("About dangle...")>>))
    \/ Call("about_dangle", 181, 182, Cur, "no_dangle", "", "result", 0)
    \/ Do("about_dangle", 182, 183, Println(Cur, <<L("No dangle: "), V("result")>>))
    \/ Return("about_dangle", 183, "")

\* The length of the region binding src denotes.
RegionLen(m, src) == StrLen(Deref(m.heap, m.vars[src]))

using_slice ==
    \/ Do("using_slice", 186, 187, Println(Cur, <<L("Using slice...")>>))
    \/ Do("using_slice", 187, 189, StringFrom(Cur, "s", HelloWorld))
    \/ Do("using_slice", 189, 191, LetLen(Cur, "len", "s"))
    \/ Do("using_slice", 191, 192, LetSlice(Cur, "slice1", "s", 0, 5, 197))
    \/ Do("using_slice", 192, 194, LetSlice(Cur, "slice2", "s", 0, 5, 198))
    \/ Do("using_slice", 194, 195,
          LetSlice(Cur, "slice3", "s", 6, Cur.vars["len"].v, 199))
    \/ Do("using_slice", 195, 197,
          LetSlice(Cur, "slice4", "s", 6, RegionLen(Cur, "s"), 200))
    \/ Do("using_slice", 197, 198, Println(Cur, <<L("Slice 1: "), V("slice1")>>))
    \/ Do("using_slice", 198, 199, Println(Cur, <<L("Slice 2: "), V("slice2")>>))
    \/ Do("using_slice", 199, 200, Println(Cur, <<L("Slice 3: "), V("slice3")>>))
    \/ Do("using_slice", 200, 201, Println(Cur, <<L("Slice 4: "), V("slice4")>>))
    \/ Return("using_slice", 201, "")

\* let bytes = s.as_bytes(): the same region, seen as bytes.
AsBytes(m, n, src) ==
    [m EXCEPT !.vars = Bind(@, n, m.vars[src]),
              !.borrows = @ \cup {Borrow(m.vars[src].id, FALSE, m.depth, n, 0)},
              !.faults = @ \cup ReadFaults(m, src)]

\* One step of bytes.iter().enumerate(): the next (i, item), if there is one.
HasNext(m) ==
    LET k == IF "i" \in DOMAIN m.vars THEN m.vars["i"].v + 1 ELSE 0 IN
    k < RegionLen(m, "bytes")

IterNext(m) ==
    LET k == IF "i" \in DOMAIN m.vars THEN m.vars["i"].v + 1 ELSE 0 IN
    [m EXCEPT !.vars = Bind(Bind(@, "i", IntV(k)), "item",
                            ByteV(Deref(m.heap, m.vars["bytes"])[k + 1])),
              !.faults = @ \cup ReadFaults(m, "bytes")]

\* A first_word that keeps the space it stops at.
first_word_keeps_space ==
    \/ Do("first_word", 204, 206, AsBytes(Cur, "bytes", "s"))
    \/ Do("first_word", 206, IF HasNext(Cur) THEN 207 ELSE 215,
          IF HasNext(Cur) THEN IterNext(Cur) ELSE Cur)
    \/ Do("first_word", 207, IF Cur.vars["item"].v = Space THEN 209 ELSE 206, Cur)
    \/ \E l \in {209, 215} :
          Do("first_word", l, 216,
             LetSlice(Cur, "ret", "s", 0,
                      IF l = 209 THEN Cur.vars["i"].v + 1 ELSE RegionLen(Cur, "s"), 0))
    \/ Return("first_word", 216, "ret")

\* The two return statements (lines 209 and 215) are one disjunct: which of
\* them runs is decided by the loop.
first_word ==
    \/ Do("first_word", 204, 206, AsBytes(Cur, "bytes", "s"))
    \/ Do("first_word", 206, IF HasNext(Cur) THEN 207 ELSE 215,
          IF HasNext(Cur) THEN IterNext(Cur) ELSE Cur)
    \/ Do("first_word", 207, IF Cur.vars["item"].v = Space THEN 209 ELSE 206, Cur)
    \/ \E l \in {209, 215} :
          Do("first_word", l, 216,
             LetSlice(Cur, "ret", "s", 0,
                      IF l = 209 THEN Cur.vars["i"].v ELSE RegionLen(Cur, "s"), 0))
    \/ Return("first_word", 216, "ret")

using_slice_function ==
    \/ Do("using_slice_function", 219, 221, Println(Cur, <<L("Using slice function...")>>))
    \/ Do("using_slice_function", 221, 222, StringFrom(Cur, "s", HelloWorld))
    \/ Call("using_slice_function", 222, 228, ArgStr(Cur, "s", "s"),
            "first_word", "s", "first", 228)
    \/ Do("using_slice_function", 228, 229,
          Println(Cur, <<L("First word is "), V("first")>>))
    \/ Return("using_slice_function", 229, "")

\* let n = "hello world": a &str into static memory.
LetLiteral(m, n, last) ==
    [m EXCEPT !.vars = Bind(@, n, StrRef(StaticId, 0, Len(HelloWorld))),
              !.borrows = @ \cup {Borrow(StaticId, FALSE, m.depth, n, last)}]

general_string_slice ==
    \/ Do("general_string_slice", 232, 235, Println(Cur, <<L("General string slice...")>>))
    \/ Do("general_string_slice", 235, 236, StringFrom(Cur, "my_string", HelloWorld))
    \/ Call("general_string_slice", 236, 237, ArgSlice(Cur, "my_string", 0, 6, "s"),
            "first_word", "s", "w1", 246)
    \/ Call("general_string_slice", 237, 238,
            ArgSlice(Cur, "my_string", 0, RegionLen(Cur, "my_string"), "s"),
            "first_word", "s", "w2", 246)
    \/ Call("general_string_slice", 238, 240, ArgStr(Cur, "my_string", "s"),
            "first_word", "s", "w3", 246)
    \/ Do("general_string_slice", 240, 241, LetLiteral(Cur, "my_string_literal", 244))
    \/ Call("general_string_slice", 241, 242,
            ArgSlice(Cur, "my_string_literal", 0, 6, "s"),
            "first_word", "s", "wl1", 246)
    \/ Call("general_string_slice", 242, 244,
            ArgSlice(Cur, "my_string_literal", 0,
                     RegionLen(Cur, "my_string_literal"), "s"),
            "first_word", "s", "wl2", 246)
    \/ Call("general_string_slice", 244, 246, ArgCopy(Cur, "my_string_literal", "s"),
            "first_word", "s", "wl3", 246)
    \/ Do("general_string_slice", 246, 247,
          Println(Cur, <<L("Output: "), V("w1"), L(" "), V("w2"), L(" "), V("w3"),
                         L(" "), V("wl1"), L(" "), V("wl2"), L(" "), V("wl3")>>))
    \/ Return("general_string_slice", 247, "")

\* A range that takes its end index too.
SubRegionInclusive(e, lo, hi) == SubSeq(e, lo + 1, hi + 1)

\* The elements lo..hi of e: index lo included, index hi excluded.
SubRegion(e, lo, hi) == SubSeq(e, lo + 1, hi)

\* The elements a slice of an array denotes.
ArrDeref(m, n) ==
    LET r == m.vars[n] IN SubRegion(m.vars[r.of].elems, r.lo, r.hi)

\* let n = &src[a..b], src an array
LetArrSlice(m, n, src, a, b) ==
    LET len == Len(m.vars[src].elems)
        m1 == [m EXCEPT !.ranges = @ \cup {RangeRecord(m, a, b, len)}]
    IN  IF InRange(a, b, len)
        THEN [m1 EXCEPT !.vars = Bind(@, n, ARefV(src, a, b))]
        ELSE [m1 EXCEPT !.panic = TRUE]

\* assert_eq!(n, &expected): a panic when they differ.
AssertEq(m, n, expected) ==
    IF ArrDeref(m, n) = expected THEN m ELSE [m EXCEPT !.panic = TRUE]

\* One step of `for item in slice`.
SliceHasNext(m) ==
    LET k == IF "k" \in DOMAIN m.vars THEN m.vars["k"].v + 1 ELSE 0 IN
    k < Len(ArrDeref(m, "slice"))

SliceNext(m) ==
    LET k == IF "k" \in DOMAIN m.vars THEN m.vars["k"].v + 1 ELSE 0 IN
    [m EXCEPT !.vars = Bind(Bind(@, "k", IntV(k)), "item",
                            IntV(ArrDeref(m, "slice")[k + 1]))]

other_slices ==
    \/ Do("other_slices", 250, 251, Println(Cur, <<L("Other slices...")>>))
    \/ Do("other_slices", 251, 252,
          [Cur EXCEPT !.vars = Bind(@, "a", ArrV(<<1, 2, 3, 4, 5>>))])
    \/ Do("other_slices", 252, 253, LetArrSlice(Cur, "slice", "a", 1, 3))
    \/ Do("other_slices", 253, 255, AssertEq(Cur, "slice", <<2, 3>>))
    \/ Do("other_slices", 255, IF SliceHasNext(Cur) THEN 256 ELSE 259,
          IF SliceHasNext(Cur) THEN SliceNext(Cur) ELSE Cur)
    \/ Do("other_slices", 256, 255, Println(Cur, <<V("item")>>))
    \/ Return("other_slices", 259, "")

\* A main that calls using_clone before multiple_variables_complex.
main_swapped ==
    \/ Call("main", 262, 263, Cur, "mutable_string", "", "", 0)
    \/ Call("main", 263, 264, Cur, "multiple_variables_simple", "", "", 0)
    \/ Call("main", 264, 265, Cur, "using_clone", "", "", 0)
    \/ Call("main", 265, 266, Cur, "multiple_variables_complex", "", "", 0)
    \/ Call("main", 266, 267, Cur, "passing_function_params", "", "", 0)
    \/ Call("main", 267, 268, Cur, "function_with_return", "", "", 0)
    \/ Call("main", 268, 269, Cur, "using_reference", "", "", 0)
    \/ Call("main", 269, 270, Cur, "using_mutable_reference", "", "", 0)
    \/ Call("main", 270, 271, Cur, "rules_of_mutable_references", "", "", 0)
    \/ Call("main", 271, 272, Cur, "about_dangle", "", "", 0)
    \/ Call("main", 272, 273, Cur, "using_slice", "", "", 0)
    \/ Call("main", 273, 274, Cur, "using_slice_function", "", "", 0)
    \/ Call("main", 274, 275, Cur, "general_string_slice", "", "", 0)
    \/ Call("main", 275, 276, Cur, "other_slices", "", "", 0)
    \/ Return("main", 276, "")

main ==
    \/ Call("main", 262, 263, Cur, "mutable_string", "", "", 0)
    \/ Call("main", 263, 264, Cur, "multiple_variables_simple", "", "", 0)
    \/ Call("main", 264, 265, Cur, "multiple_variables_complex", "", "", 0)
    \/ Call("main", 265, 266, Cur, "using_clone", "", "", 0)
    \/ Call("main", 266, 267, Cur, "passing_function_params", "", "", 0)
    \/ Call("main", 267, 268, Cur, "function_with_return", "", "", 0)
    \/ Call("main", 268, 269, Cur, "using_reference", "", "", 0)
    \/ Call("main", 269, 270, Cur, "using_mutable_reference", "", "", 0)
    \/ Call("main", 270, 271, Cur, "rules_of_mutable_references", "", "", 0)
    \/ Call("main", 271, 272, Cur, "about_dangle", "", "", 0)
    \/ Call("main", 272, 273, Cur, "using_slice", "", "", 0)
    \/ Call("main", 273, 274, Cur, "using_slice_function", "", "", 0)
    \/ Call("main", 274, 275, Cur, "general_string_slice", "", "", 0)
    \/ Call("main", 275, 276, Cur, "other_slices", "", "", 0)
    \/ Return("main", 276, "")

(***************************************************************************)
(* The program: started once, it runs main to its end.                      *)
(***************************************************************************)
Init ==
    /\ status = "NotStarted"
    /\ stack = <<>>
    /\ heap = [i \in {} |-> [content |-> <<>>, scen |-> ""]]
    /\ nextId = 1
    /\ dropped = [i \in {} |-> 0]
    /\ borrows = {}
    /\ out = <<>>
    /\ started = <<>>
    /\ returned = <<>>
    /\ ranges = {}
    /\ faults = {}
    /\ fwCalls = {}
    /\ runNo = 1
    /\ mode = "all"
    /\ marks = <<>>
    /\ firstOut = <<>>
    /\ firstMarks = <<>>

\* The process starts: control enters main.
Start ==
    /\ status = "NotStarted"
    /\ status' = "Running"
    /\ stack' = <<[fn |-> "main", pc |-> Entry["main"], vars |-> NoVars,
                   dest |-> "", destLast |-> 0, retpc |-> 0]>>
    /\ UNCHANGED <<heap, nextId, dropped, borrows, out, started, returned,
                   ranges, faults, fwCalls, marks, runVars>>

Next ==
    \/ Start
    \/ main
    \/ mutable_string
    \/ multiple_variables_simple
    \/ multiple_variables_complex
    \/ using_clone
    \/ print_string
    \/ print_integer
    \/ passing_function_params
    \/ takes_and_gives_back
    \/ function_with_return
    \/ calculate_length
    \/ using_reference
    \/ change
    \/ using_mutable_reference
    \/ rules_of_mutable_references
    \/ no_dangle
    \/ about_dangle
    \/ using_slice
    \/ first_word
    \/ using_slice_function
    \/ general_string_slice
    \/ other_slices

Spec == Init /\ [][Next]_vars

\* The program under the scheduling of a single thread: it keeps running.
FairSpec == Spec /\ WF_vars(Next)

(***************************************************************************)
(* Running again: main a second time, or one scenario on its own, in the   *)
(* same address space (the allocator goes on where the run before ended).  *)
(***************************************************************************)
IndexOf(k) == CHOOSE i \in 1..Len(Order) : Order[i] = k

Scenarios == {Order[i] : i \in 1..Len(Order)}

Rerun ==
    /\ status = "Completed"
    /\ runNo < MaxRuns
    /\ \E k \in {"all"} \cup Scenarios :
         /\ mode' = k
         /\ stack' = <<[fn |-> IF k = "all" THEN "main" ELSE "scenario_again",
                        pc |-> IF k = "all" THEN Entry["main"]
                               ELSE Entry["main"] + IndexOf(k) - 1,
                        vars |-> NoVars, dest |-> "", destLast |-> 0,
                        retpc |-> 0]>>
    /\ status' = "Running"
    /\ runNo' = runNo + 1
    /\ firstOut' = IF runNo = 1 THEN out ELSE firstOut
    /\ firstMarks' = IF runNo = 1 THEN marks ELSE firstMarks
    /\ out' = <<>>
    /\ marks' = <<>>
    /\ started' = <<>>
    /\ returned' = <<>>
    /\ UNCHANGED <<heap, nextId, dropped, borrows, ranges, faults, fwCalls>>

\* One of main's calls, made on its own.
scenario_again ==
    \/ /\ stack # <<>>
       /\ \E i \in 1..Len(Order) :
            Call("scenario_again", Entry["main"] + i - 1, 276, Cur, Order[i], "", "", 0)
    \/ Return("scenario_again", 276, "")

TwiceSpec == Init /\ [][Next \/ Rerun \/ scenario_again]_vars

(***************************************************************************)
(* first_word on every text: a caller like using_slice_function, its text  *)
(* and the region it passes arbitrary.                                     *)
(***************************************************************************)
Alphabet == {" ", "a", "b"}

Texts == UNION {[1..n -> Alphabet] : n \in 0..MaxLen}

FWInit ==
    /\ status = "Running"
    /\ \E t \in Texts :
         heap = (1 :> [content |-> t, scen |-> "first_word_caller"])
    /\ stack = <<[fn |-> "main", pc |-> 273, vars |-> NoVars, dest |-> "",
                  destLast |-> 0, retpc |-> 0],
                 [fn |-> "first_word_caller", pc |-> 222,
                  vars |-> ("s" :> StrV(1)), dest |-> "", destLast |-> 0,
                  retpc |-> 276]>>
    /\ nextId = 2
    /\ dropped = (1 :> 0)
    /\ borrows = {}
    /\ out = <<>>
    /\ started = <<"first_word_caller">>
    /\ returned = <<>>
    /\ ranges = {}
    /\ faults = {}
    /\ fwCalls = {}
    /\ runNo = 1
    /\ mode = "all"
    /\ marks = <<0>>
    /\ firstOut = <<>>
    /\ firstMarks = <<>>

first_word_caller ==
    \/ /\ At("first_word_caller", 222)
       /\ \E a \in 0..RegionLen(Cur, "s") : \E b \in a..RegionLen(Cur, "s") :
            Call("first_word_caller", 222, 228, ArgSlice(Cur, "s", a, b, "s"),
                 "first_word", "s", "first", 228)
    \/ Do("first_word_caller", 228, 229,
          Println(Cur, <<L("First word is "), V("first")>>))
    \/ Return("first_word_caller", 229, "")

FWSpec == (Init \/ FWInit) /\ [][Next \/ first_word_caller]_vars

(***************************************************************************)
(* Helpers of the properties.                                              *)
(***************************************************************************)
IsPrefix(a, b) == Len(a) <= Len(b) /\ SubSeq(b, 1, Len(a)) = a

\* Control is in function f at one of the lines ls.
In(f, ls) == stack # <<>> /\ Top.fn = f /\ Top.pc \in ls

Local(n) == Top.vars[n]

RECURSIVE OwnerCount(_, _)
\* How many bindings of the frames 1..d own buffer id.
OwnerCount(id, d) ==
    IF d = 0 THEN 0 ELSE OwnersIn(stack[d].vars, id) + OwnerCount(id, d - 1)

Owners(id) == OwnerCount(id, Len(stack))

\* Every valid owning binding of every frame names a live buffer.
OwnersAreLive ==
    \A d \in 1..Len(stack) : \A n \in DOMAIN stack[d].vars :
        stack[d].vars[n].kind = "String" => stack[d].vars[n].id \in DOMAIN heap

LastLines(k) == SubSeq(out, Len(out) - k + 1, Len(out))

(***************************************************************************)
(* C1.  A run starts the fourteen scenarios in the order of main, each     *)
(* once, the next only after the one before has returned; the status goes  *)
(* only NotStarted -> Running -> Completed, and the run always eventually  *)
(* reaches Completed.                                                      *)
(***************************************************************************)
C1_Order ==
    /\ status \in {"NotStarted", "Running", "Completed"}
    /\ IsPrefix(started, Order)
    /\ IsPrefix(returned, started)
    /\ Len(started) - Len(returned) \in {0, 1}
    /\ Len(stack) >= 2 =>
          /\ Len(started) = Len(returned) + 1
          /\ stack[2].fn = started[Len(started)]
    /\ Len(stack) = 1 => Len(started) = Len(returned)
    /\ status = "NotStarted" => started = <<>>
    /\ status = "Completed" => started = Order /\ returned = Order

C1_StatusStep ==
    status' # status =>
        <<status, status'>> \in {<<"NotStarted", "Running">>, <<"Running", "Completed">>}

C1_RunAll ==
    /\ []C1_Order
    /\ [][C1_StatusStep]_vars
    /\ <>(status = "Completed")

C1_Witness ==
    status = "Completed" /\ started = Order /\ returned = Order /\ Len(Order) = 14

(***************************************************************************)
(* C2.  Every range taken of a text or an array lies within the sliced     *)
(* value, 0 <= start <= end <= length, and the run never aborts.           *)
(***************************************************************************)
C2_RangesInBounds ==
    /\ status # "Aborted"
    /\ \A r \in ranges : 0 <= r.start /\ r.start <= r.end /\ r.end <= r.len

C2_Witness ==
    /\ status = "Completed"
    /\ {<<r.fn, r.line>> : r \in ranges} =
          {<<"using_slice", 191>>, <<"using_slice", 192>>, <<"using_slice", 194>>,
           <<"using_slice", 195>>, <<"first_word", 209>>,
           <<"general_string_slice", 236>>, <<"general_string_slice", 237>>,
           <<"general_string_slice", 241>>, <<"general_string_slice", 242>>,
           <<"other_slices", 252>>}
    /\ [fn |-> "using_slice", line |-> 194, start |-> 6, end |-> 11, len |-> 11] \in ranges

(***************************************************************************)
(* C3.  Every live String buffer has exactly one valid owning binding, a   *)
(* valid owning binding always names a live buffer, and no binding is read *)
(* after it has been moved from.                                           *)
(***************************************************************************)
C3_SingleOwner ==
    /\ \A id \in DOMAIN heap : Owners(id) = 1
    /\ OwnersAreLive
    /\ "use_after_move" \notin faults
    /\ In("multiple_variables_complex", {39, 40}) =>
          Local("s1") = Moved /\ Local("s2").kind = "String"
    /\ In("print_string", {55, 56}) =>
          stack[Len(stack) - 1].vars["s"] = Moved /\ Local("value").kind = "String"
    /\ In("takes_and_gives_back", {84}) =>
          stack[Len(stack) - 1].vars["s"] = Moved /\ Local("value").kind = "String"
    /\ In("function_with_return", {95, 96}) =>
          Local("s") = Moved /\ Local("s2").kind = "String"
    /\ In("about_dangle", {182, 183}) => Local("result").kind = "String"

C3_Witness ==
    /\ In("function_with_return", {95})
    /\ Local("s") = Moved
    /\ Local("s2").kind = "String"
    /\ Owners(Local("s2").id) = 1

(***************************************************************************)
(* C4.  The live borrows of a text are one exclusive borrow and no shared  *)
(* one, or shared borrows only; in rules_of_mutable_references r1 is dead  *)
(* when r2 is made, r2 is dead when the shared borrows are made, and the   *)
(* two shared borrows are live together.                                   *)
(***************************************************************************)
MutBorrows(id) == {b \in borrows : b.id = id /\ b.mut}
SharedBorrows(id) == {b \in borrows : b.id = id /\ ~b.mut}

C4_BorrowRule ==
    /\ \A id \in {b.id : b \in borrows} :
          /\ Cardinality(MutBorrows(id)) <= 1
          /\ MutBorrows(id) # {} => SharedBorrows(id) = {}
    /\ faults \cap {"dead_borrow", "write_through_shared", "write_while_borrowed"} = {}
    /\ In("rules_of_mutable_references", {148}) =>
          Cardinality(MutBorrows(Local("s").id)) = 1
    /\ In("rules_of_mutable_references", {149, 154}) => borrows = {}
    /\ In("rules_of_mutable_references", {156}) =>
          /\ MutBorrows(Local("s").id) = {}
          /\ {b.name : b \in SharedBorrows(Local("s").id)} = {"r1", "r2"}

C4_Witness ==
    /\ In("rules_of_mutable_references", {156})
    /\ Cardinality(SharedBorrows(Local("s").id)) = 2
    /\ Len(out) > 2
    /\ LastLines(2) = <<<<"r1: ", Hello>>, <<"r2: ", Hello>>>>

(***************************************************************************)
(* C5.  first_word returns the region of its argument before the first     *)
(* space, the whole region when there is no space; on "hello world" that   *)
(* is "hello", and so are the six results in general_string_slice.         *)
(***************************************************************************)
HasSpace(t) == \E i \in 1..Len(t) : t[i] = " "

FirstSpace(t) ==
    CHOOSE i \in 1..Len(t) : t[i] = " " /\ \A j \in 1..(i - 1) : t[j] # " "

FirstWordOf(t) == IF HasSpace(t) THEN SubSeq(t, 1, FirstSpace(t) - 1) ELSE t

C5_FirstWord ==
    /\ \A c \in fwCalls :
          /\ c.res = FirstWordOf(c.arg)
          /\ c.resRef = StrRef(c.argRef.id, c.argRef.lo,
                               c.argRef.lo + Len(FirstWordOf(c.arg)))
    /\ In("using_slice_function", {228, 229}) =>
          /\ Deref(heap, Local("s")) = HelloWorld
          /\ Deref(heap, Local("first")) = Hello
    /\ In("general_string_slice", {246, 247}) =>
          /\ \A n \in {"w1", "w2", "w3", "wl1", "wl2", "wl3"} :
                Deref(heap, Local(n)) = Hello
          /\ {c.arg : c \in fwCalls} = {HelloWorld, Append(Hello, " ")}
          /\ {Local("my_string").id, StaticId} \subseteq {c.argRef.id : c \in fwCalls}

C5_Witness ==
    /\ In("first_word_caller", {228})
    /\ \E c \in fwCalls : HasSpace(c.arg) /\ c.res # <<>> /\ c.argRef.lo > 0

(***************************************************************************)
(* C6.  In other_slices a[1..3] is exactly [2, 3], so the assertion passes *)
(* and the scenario prints 2, then 3.                                      *)
(***************************************************************************)
C6_ArraySlice ==
    /\ In("other_slices", {253, 255, 256, 259}) =>
          /\ ArrDeref(Cur, "slice") = <<2, 3>>
          /\ Len(ArrDeref(Cur, "slice")) = 2
    /\ In("other_slices", {253}) => status = "Running"
    /\ In("other_slices", {259}) =>
          LastLines(3) = <<<<"Other slices...">>, <<<<"2">>>>, <<<<"3">>>>>>

C6_Witness ==
    /\ In("other_slices", {259})
    /\ status = "Running"
    /\ Local("slice") = ARefV("a", 1, 3)

(***************************************************************************)
(* C7.  In using_clone, after s2 = s1.clone(), s1 and s2 are valid owners  *)
(* of two distinct buffers with equal content "hello", one owner each.     *)
(***************************************************************************)
C7_Clone ==
    In("using_clone", {51, 52}) =>
        /\ Local("s1").kind = "String"
        /\ Local("s2").kind = "String"
        /\ Local("s1").id # Local("s2").id
        /\ {Local("s1").id, Local("s2").id} \subseteq DOMAIN heap
        /\ heap[Local("s1").id].content = Hello
        /\ heap[Local("s2").id].content = Hello
        /\ Owners(Local("s1").id) = 1
        /\ Owners(Local("s2").id) = 1

C7_Witness ==
    /\ In("using_clone", {52})
    /\ Cardinality(DOMAIN heap) = 2
    /\ LastLines(1) = <<<<"s1 = ", Hello, ", s2 = ", Hello>>>>

(***************************************************************************)
(* C8.  Copying an integer leaves the original valid and equal to the      *)
(* copy: x and y are both 5 in multiple_variables_simple, and x is still 5 *)
(* in passing_function_params after print_integer(x).                      *)
(***************************************************************************)
C8_Copy ==
    /\ In("multiple_variables_simple", {21, 22}) =>
          Local("x") = IntV(5) /\ Local("y") = IntV(5)
    /\ In("multiple_variables_simple", {22}) =>
          LastLines(1) = <<<<"x = ", <<"5">>, ", y = ", <<"5">>>>>>
    /\ In("print_integer", {59, 60}) =>
          Local("value") = IntV(5) /\ stack[Len(stack) - 1].vars["x"] = IntV(5)
    /\ In("passing_function_params", {80, 81}) => Local("x") = IntV(5)
    /\ In("passing_function_params", {81}) =>
          LastLines(1) = <<<<"Check validity of x: ", <<"5">>>>>>

C8_Witness ==
    /\ In("passing_function_params", {81})
    /\ Local("x") = IntV(5)
    /\ \E i \in 1..Len(out) : out[i] = <<"x = ", <<"5">>, ", y = ", <<"5">>>>

(***************************************************************************)
(* C9.  A further run writes the same lines as the first: a repeated main  *)
(* the whole output, a scenario run on its own the lines it wrote in the   *)
(* first run; no run reads what another wrote.                             *)
(***************************************************************************)
SegmentOfFirst(k) ==
    LET i == IndexOf(k) IN
    SubSeq(firstOut, firstMarks[i] + 1,
           IF i < Len(Order) THEN firstMarks[i + 1] ELSE Len(firstOut))

Expected == IF mode = "all" THEN firstOut ELSE SegmentOfFirst(mode)

C9_SameOutput ==
    /\ faults \cap {"cross_scenario_read", "dangling"} = {}
    /\ runNo > 1 =>
          /\ IsPrefix(out, Expected)
          /\ status = "Completed" => out = Expected

C9_Witness ==
    /\ runNo = 2
    /\ mode = "all"
    /\ status = "Completed"
    /\ out = firstOut
    /\ Len(out) = 36

(***************************************************************************)
(* C10.  What a scenario creates is released by the time it returns: in    *)
(* main, between scenarios and at the end, no buffer and no borrow is      *)
(* live; a buffer is released exactly once, the one moved into             *)
(* print_string when print_string returns; no scenario reads a buffer      *)
(* another created.                                                        *)
(***************************************************************************)
C10_Released ==
    /\ \A id \in DOMAIN dropped : dropped[id] <= 1
    /\ DOMAIN heap = {id \in DOMAIN dropped : dropped[id] = 0}
    /\ DOMAIN dropped = 1..(nextId - 1)
    /\ Len(stack) <= 1 => DOMAIN heap = {} /\ borrows = {}
    /\ \A id \in DOMAIN heap : Len(stack) >= 2 /\ heap[id].scen = stack[2].fn
    /\ In("print_string", {55, 56}) => Local("value").id \in DOMAIN heap
    /\ In("passing_function_params", {73, 74, 80, 81}) => DOMAIN heap = {}
    /\ faults \cap {"cross_scenario_read", "dangling"} = {}

C10_Witness ==
    /\ In("passing_function_params", {73})
    /\ Local("s") = Moved
    /\ dropped[nextId - 1] = 1
    /\ DOMAIN heap = {}

====
